---- MODULE Spec2Model ----
(***************************************************************************)
(* Model of the docstring-driven introspection pipeline of                 *)
(* rest_framework_swagger: introspectors.py, docstrcollector.py and        *)
(* docstrurlparser.py.                                                     *)
(*                                                                         *)
(* Text is modelled as a sequence of tokens.  A token is a run of          *)
(* characters that the code never looks inside, except for the closing     *)
(* bracket a tag ends with (see EndsWithBracket).  A docstring is a        *)
(* sequence of lines, so str.split('\n') is the identity on it and         *)
(* joining with '\n' is concatenation of line sequences; the empty string  *)
(* is the one-line docstring << <<>> >> and None is the docstring <<>>.    *)
(* A Python dict is a function whose DOMAIN is the set of its keys.        *)
(***************************************************************************)
EXTENDS Integers, Sequences, FiniteSets, TLC

VARIABLES
    pc,                 \* which operation has run: "start", then its name
    \* a method introspector and the handler it looks at
    http_method,        \* BaseMethodIntrospector.method
    path,               \* BaseViewIntrospector.path
    serializer,         \* what callback().get_serializer_class() returns
    method_doc,         \* getattr(callback, method).__doc__
    class_doc,          \* get_view_description(callback)
    docstring_params,   \* result of build_query_params_from_docstring
    path_params,        \* result of build_path_parameters
    params,             \* result of get_parameters
    notes,              \* result of get_notes
    \* the URL parser
    patterns,           \* the route tree: node -> pattern or resolver
    exclude_namespaces, \* the list passed to get_apis
    yaml_block,         \* the mapping of the handler's structured block
    filter_path,        \* the filter_path passed to get_apis
    apis,               \* the list an operation of the URL parser returns
    raised,             \* whether the operation ended in an exception
    \* the collector
    model_classes,      \* the model classes: number -> class
    endpoints,          \* the handlers of the apis handed to get_models
    models,             \* the mapping get_models returns
    \* a DocstrIntrospector being iterated
    methods,            \* the structured block of each method, in order
    idx,                \* how many methods the generator has gone through
    yielded             \* the methods yielded so far

docVars == <<http_method, path, serializer, method_doc, class_doc,
             docstring_params, path_params, params, notes>>
routeVars == <<patterns, exclude_namespaces, yaml_block, filter_path, apis>>

modelVars == <<model_classes, endpoints, models>>
iterVars == <<methods, idx, yielded>>

vars == <<pc, raised, docVars, routeVars, modelVars, iterVars>>

-----------------------------------------------------------------------------
(* Tokens *)

SEP == " -- "       \* the separator of a parameter line, with its blanks
DASHES == "--"      \* two dashes not surrounded by blanks ("a--b", "---")
WS == " "           \* a run of blanks
REQ == "[required]"
PFORM == "[paramType=form]"
PBODY == "[paramType=body]"
DTOPEN == "[dataType="
RB == "]"
PBODYCUT == "[paramType=body"   \* PBODY without its closing bracket
PFORMCUT == "[paramType=form"
REQCUT == "[required"

Min(S) == CHOOSE x \in S : \A y \in S : x <= y
Max(S) == CHOOSE x \in S : \A y \in S : x >= y

Range(s) == {s[i] : i \in 1..Len(s)}

SeqsUpTo(A, n) == UNION {[1..k -> A] : k \in 0..n}

RECURSIVE Flat(_)
\* concatenation of a sequence of sequences
Flat(ss) == IF ss = <<>> THEN <<>> ELSE Head(ss) \o Flat(Tail(ss))

\* str.strip(): blanks removed at both ends
Strip(s) ==
    LET keep == {i \in 1..Len(s) : s[i] # WS}
    IN  IF keep = {} THEN <<>> ELSE SubSeq(s, Min(keep), Max(keep))

\* str.replace(tok, '') for a one-token needle
RemoveToken(s, tok) == SelectSeq(s, LAMBDA t : t # tok)

RECURSIVE RemoveAll(_, _)
\* str.replace(sub, ''): every non-overlapping occurrence, left to right
RemoveAll(s, sub) ==
    IF Len(s) < Len(sub) \/ sub = <<>> THEN s
    ELSE IF SubSeq(s, 1, Len(sub)) = sub
         THEN RemoveAll(SubSeq(s, Len(sub) + 1, Len(s)), sub)
         ELSE <<Head(s)>> \o RemoveAll(Tail(s), sub)

RECURSIVE SplitOn(_, _)
\* str.split(tok): the pieces between the occurrences of tok
SplitOn(s, tok) ==
    LET hits == {i \in 1..Len(s) : s[i] = tok}
    IN  IF hits = {} THEN <<s>>
        ELSE <<SubSeq(s, 1, Min(hits) - 1)>>
             \o SplitOn(SubSeq(s, Min(hits) + 1, Len(s)), tok)

\* dict.update
Update(a, b) ==
    [k \in DOMAIN a \cup DOMAIN b |-> IF k \in DOMAIN b THEN b[k] ELSE a[k]]

-----------------------------------------------------------------------------
(* build_query_params_from_docstring *)

\* the tokens whose last character is ']'
EndsWithBracket(t) == t \in {RB, REQ, PFORM, PBODY}

\* a token without its last character
CutBracket(t) ==
    CASE t = RB -> <<>>
      [] t = PBODY -> <<PBODYCUT>>
      [] t = PFORM -> <<PFORMCUT>>
      [] t = REQ -> <<REQCUT>>
      [] OTHER -> <<t>>

\* re.compile('.*(\[dataType=(.+)\]).*').match(description): both .* and .+
\* are greedy, so group 2 runs to the last ']' of the line and group 1 starts
\* at the last '[dataType=' that leaves it at least one character.
DataTypeMatch(description) ==
    LET closes == {j \in 1..Len(description) : EndsWithBracket(description[j])}
        last == IF closes = {} THEN 0 ELSE Max(closes)
        \* characters between the opener and the final ']'
        Inner(i) == SubSeq(description, i + 1, last - 1)
                    \o CutBracket(description[last])
        opens == {i \in 1..Len(description) :
                     /\ description[i] = DTOPEN
                     /\ i < last
                     /\ Inner(i) # <<>>}
    IN  IF opens = {} THEN [matched |-> FALSE]
        ELSE [matched |-> TRUE,
              group1 |-> SubSeq(description, Max(opens), last),
              group2 |-> Inner(Max(opens))]

ParamTypeStep(d) ==
    IF PFORM \in Range(d.description)
    THEN [d EXCEPT !.param_dict = Update(@, [paramType |-> "form"]),
                   !.description = RemoveToken(@, PFORM)]
    ELSE IF PBODY \in Range(d.description)
    THEN [d EXCEPT !.param_dict = Update(@, [paramType |-> "body"]),
                   !.description = RemoveToken(@, PBODY)]
    ELSE d

RequiredStep(d) ==
    IF REQ \in Range(d.description)
    THEN [d EXCEPT !.param_dict = Update(@, [required |-> "True"]),
                   !.description = RemoveToken(@, REQ)]
    ELSE d

DataTypeStep(d) ==
    LET match == DataTypeMatch(d.description)
    IN  IF match.matched
        THEN [d EXCEPT !.param_dict = Update(@, [dataType |-> match.group2]),
                       !.description = RemoveAll(@, match.group1)]
        ELSE d

\* the body of the loop for one line: the parameters the line contributes
LineParams(line) ==
    LET param == SplitOn(line, SEP)
    IN  IF Len(param) = 2
        THEN LET d0 == [param_dict |-> [name |-> Strip(param[1])],
                        description |-> param[2]]
                 d3 == DataTypeStep(RequiredStep(ParamTypeStep(d0)))
             IN  <<Update(d3.param_dict,
                          [description |-> Strip(d3.description)])>>
        ELSE <<>>

\* retrieve_docstring() or '', then "\n" + get_view_description(callback)
DocstringLines(mdoc, cdoc) ==
    (IF mdoc = <<>> THEN << <<>> >> ELSE mdoc) \o cdoc

BuildQueryParamsFromDocstring(mdoc, cdoc) ==
    LET lines == DocstringLines(mdoc, cdoc)
    IN  Flat([i \in 1..Len(lines) |-> LineParams(lines[i])])

-----------------------------------------------------------------------------
(* build_path_parameters, build_form_parameters, build_body_parameters *)

CaptureTokens == {"{id}", "{pk}"}

\* the text between the braces of a capture token
CaptureName(t) == IF t = "{id}" THEN "id" ELSE "pk"

\* re.findall('/{([^}]*)}', path): the capture tokens that directly follow '/'
UrlParams(p) ==
    LET hits == {i \in 2..Len(p) : p[i] \in CaptureTokens /\ p[i-1] = "/"}
    IN  SelectSeq([i \in 1..Len(p) |->
                      IF i \in hits THEN CaptureName(p[i]) ELSE ""],
                  LAMBDA n : n # "")

BuildPathParameters(p) ==
    LET url_params == UrlParams(p)
    IN  [i \in 1..Len(url_params) |->
            [name |-> <<url_params[i]>>,
             dataType |-> <<"string">>,
             paramType |-> "path",
             required |-> "True"]]

NoSerializer == [is_none |-> TRUE, name |-> "", fields |-> <<>>]

\* None is <<>>, the dict {max, min, valueType} is a one-element sequence
AllowableValues(field) ==
    IF field.max_length # "None" \/ field.min_length # "None"
    THEN <<[max |-> field.max_length, min |-> field.min_length,
            valueType |-> "RANGE"]>>
    ELSE <<>>

FormParameter(field) ==
    [paramType |-> "form",
     name |-> <<field.name>>,
     dataType |-> <<field.type_label>>,
     allowableValues |-> AllowableValues(field),
     description |-> field.help_text,
     defaultValue |-> field.default,
     required |-> field.required]

BuildFormParameters(ser) ==
    IF ser.is_none THEN <<>>
    ELSE LET writable == SelectSeq(ser.fields, LAMBDA f : ~f.read_only)
         IN  [i \in 1..Len(writable) |-> FormParameter(writable[i])]

\* None is <<>>, the body parameter is a one-element sequence
BuildBodyParameters(ser) ==
    IF ser.is_none THEN <<>>
    ELSE <<[name |-> <<ser.name>>,
            dataType |-> <<ser.name>>,
            paramType |-> "body"]>>

-----------------------------------------------------------------------------
(* get_parameters *)

\* params after steps 1 and 2: path, then form or body parameters
StructuredParams(method, p, ser) ==
    LET body == BuildBodyParameters(ser)
        form == BuildFormParameters(ser)
    IN  IF method \notin {"GET", "DELETE"}
        THEN BuildPathParameters(p) \o form
             \o (IF form = <<>> THEN body ELSE <<>>)
        ELSE BuildPathParameters(p)

\* params_map[name]: the dict built before the loop keeps, for each name, the
\* last parameter of that name; it is never extended inside the loop
ParamsMapKeys(base) == {base[i].name : i \in 1..Len(base)}
ParamsMapGet(base, name) == Max({i \in 1..Len(base) : base[i].name = name})

\* the else branch: defaults for what the docstring line did not set
WithDefaults(doc_param) ==
    Update([paramType |-> "query", dataType |-> <<>>], doc_param)

\* MergeOne with the existing parameter replaced by the docstring's record
\* instead of updated with it
MergeOneReplacing(acc, base, doc_param) ==
    IF doc_param.name \in ParamsMapKeys(base)
    THEN [acc EXCEPT ![ParamsMapGet(base, doc_param.name)] =
                         WithDefaults(doc_param)]
    ELSE Append(acc, WithDefaults(doc_param))

\* one iteration of the loop over docstring_params
MergeOne(acc, base, doc_param) ==
    IF doc_param.name \in ParamsMapKeys(base)
    THEN [acc EXCEPT ![ParamsMapGet(base, doc_param.name)] =
                         Update(@, doc_param)]
    ELSE Append(acc, WithDefaults(doc_param))

RECURSIVE MergeDocstringParams(_, _, _)
MergeDocstringParams(acc, base, docs) ==
    IF docs = <<>> THEN acc
    ELSE MergeDocstringParams(MergeOne(acc, base, Head(docs)), base, Tail(docs))

GetParameters(method, p, ser, mdoc, cdoc) ==
    LET base == StructuredParams(method, p, ser)
        docs == BuildQueryParamsFromDocstring(mdoc, cdoc)
    IN  MergeDocstringParams(base, base, docs)

-----------------------------------------------------------------------------
(* get_notes *)

IsBlank(line) == Strip(line) = <<>>

\* django's trim_docstring on the lines of a text: '' for None or a text of
\* blanks; otherwise the indentation and the trailing blanks of every line
\* go, and then the blank lines at both ends (the final .strip()).  Lines
\* are taken to be uniformly indented, so the indentation is the leading WS.
TrimDocstring(lines) ==
    LET keep == {i \in 1..Len(lines) : ~IsBlank(lines[i])}
    IN  IF keep = {} THEN << <<>> >>
        ELSE [i \in 1..(Max(keep) - Min(keep) + 1) |->
                 Strip(lines[Min(keep) + i - 1])]

\* line.find('--') != -1: the two dashes of SEP are found as well
HasDashes(line) == \E i \in 1..Len(line) : line[i] \in {SEP, DASHES}

BR == "<br/>"

RECURSIVE JoinLines(_)
\* " ".join(['<br/>' if line == '' else line for line in split_lines])
JoinLines(lines) ==
    IF lines = <<>> THEN <<>>
    ELSE LET first == IF Head(lines) = <<>> THEN <<BR>> ELSE Head(lines)
         IN  IF Len(lines) = 1 THEN first
             ELSE first \o <<WS>> \o JoinLines(Tail(lines))

StripParamsFromDocstring(docstring) ==
    LET split_lines == TrimDocstring(docstring)
        found == {i \in 1..Len(split_lines) : HasDashes(Strip(split_lines[i]))}
    IN  JoinLines(IF found = {} THEN split_lines
                  ELSE SubSeq(split_lines, 1, Min(found) - 1))

\* the text get_notes hands to strip_params_from_docstring
NotesSource(mdoc, cdoc) == TrimDocstring(cdoc) \o mdoc

\* the two substitutions after the call find no '\n' left in the joined text
GetNotes(mdoc, cdoc) == StripParamsFromDocstring(NotesSource(mdoc, cdoc))

-----------------------------------------------------------------------------
(* DocstrUrlParser *)

FORMAT == ".{format}"

\* the callbacks a RegexURLPattern can carry: what wraps the handler, and the
\* handler's class
ViewCallback ==
    [wrap |-> "cls", name |-> "View", is_api_view |-> TRUE,
     is_doc_view |-> FALSE, module |-> "app.views"]
ApiRootCallback ==
    [wrap |-> "cls", name |-> "APIRoot", is_api_view |-> TRUE,
     is_doc_view |-> FALSE, module |-> "rest_framework.routers"]
DocViewCallback ==
    [wrap |-> "cls", name |-> "SwaggerApiView", is_api_view |-> TRUE,
     is_doc_view |-> TRUE, module |-> "rest_framework_swagger.views"]
FunctionCallback ==
    [wrap |-> "none", name |-> "function", is_api_view |-> FALSE,
     is_doc_view |-> FALSE, module |-> "app.views"]
InstanceCallback ==
    [wrap |-> "cls_instance", name |-> "OldView", is_api_view |-> TRUE,
     is_doc_view |-> FALSE, module |-> "app.views"]

\* __get_pattern_api_callback__: the handler's name, "None", or "TypeError":
\* issubclass(cls_instance, APIDocView) is handed an instance and raises
GetPatternApiCallback(pattern) ==
    IF pattern.callback.wrap = "cls" /\ pattern.callback.is_api_view
       /\ ~pattern.callback.is_doc_view
    THEN pattern.callback.name
    ELSE IF pattern.callback.wrap = "cls_instance"
            /\ pattern.callback.is_api_view
    THEN "TypeError"
    ELSE "None"

ExcludeRouterApiRoot(callback) == callback.module = "rest_framework.routers"

ExcludeFormatEndpoints(p) == FORMAT \in Range(p)

\* django's simplify_regex: a named group becomes <name>, and the path
\* starts with '/'
SimplifyToken(t) ==
    CASE t = "(?P<id>)" -> "<id>"
      [] t = ".(?P<format>)" -> ".<format>"
      [] OTHER -> t
SimplifyRegex(r) ==
    LET named == [i \in 1..Len(r) |-> SimplifyToken(r[i])]
    IN  IF named = <<>> \/ Head(named) # "/" THEN <<"/">> \o named ELSE named

\* path.replace('<', '{').replace('>', '}')
BraceToken(t) ==
    CASE t = "<id>" -> "{id}"
      [] t = ".<format>" -> FORMAT
      [] OTHER -> t
Braces(p) == [i \in 1..Len(p) |-> BraceToken(p[i])]

\* __assemble_endpoint_data__: <<>> for None, else the one endpoint dict
AssembleEndpointData(id, pattern, prefix) ==
    LET callback == GetPatternApiCallback(pattern)
        p == Braces(SimplifyRegex(prefix \o pattern.regex))
    IN  IF callback = "TypeError" THEN [raised |-> TRUE, data |-> <<>>]
        ELSE IF callback = "None" \/ ExcludeRouterApiRoot(pattern.callback)
        THEN [raised |-> FALSE, data |-> <<>>]
        ELSE IF ExcludeFormatEndpoints(p)
        THEN [raised |-> FALSE, data |-> <<>>]
        ELSE [raised |-> FALSE,
              data |-> <<[path |-> p, pattern |-> id, callback |-> callback]>>]

\* pattern.url_patterns of a resolver, or the top-level list for node 0
UrlPatterns(tree, id) ==
    SelectSeq([i \in 1..Len(tree) |-> i], LAMBDA i : tree[i].parent = id)

\* the test that prunes a resolver, with only the first excluded namespace
\* looked at
NamespaceExcludedFirstOnly(pattern, excl) ==
    excl # <<>> /\ pattern.namespace = excl[1]

\* pattern.namespace in exclude_namespaces
NamespaceExcluded(pattern, excl) == pattern.namespace \in Range(excl)

RECURSIVE FlattenPatternsTree(_, _, _, _)
\* __flatten_patterns_tree__ over the list ids of nodes of the tree
FlattenPatternsTree(tree, ids, prefix, excl) ==
    IF ids = <<>> THEN [raised |-> FALSE, data |-> <<>>]
    ELSE
      LET pattern == tree[Head(ids)]
          first ==
            IF pattern.kind = "RegexURLPattern"
            THEN AssembleEndpointData(Head(ids), pattern, prefix)
            ELSE IF NamespaceExcluded(pattern, excl)
            THEN [raised |-> FALSE, data |-> <<>>]
            ELSE FlattenPatternsTree(tree, UrlPatterns(tree, Head(ids)),
                                     prefix \o pattern.regex, excl)
          rest == FlattenPatternsTree(tree, Tail(ids), prefix, excl)
      IN  IF first.raised \/ rest.raised THEN [raised |-> TRUE, data |-> <<>>]
          ELSE [raised |-> FALSE, data |-> first.data \o rest.data]

\* str.strip('/')
StripSlashes(s) ==
    LET keep == {i \in 1..Len(s) : s[i] # "/"}
    IN  IF keep = {} THEN <<>> ELSE SubSeq(s, Min(keep), Max(keep))

\* get_filtered_apis
GetFilteredApis(list, filter) ==
    SelectSeq(list, LAMBDA x :
        filter = StripSlashes(IF "api" \in DOMAIN x THEN x.api ELSE <<>>))

\* get_apis with the patterns given: flatten, merge the handler's block onto
\* every endpoint, then filter
GetApis(tree, block, filter, excl) ==
    LET flat == FlattenPatternsTree(tree, UrlPatterns(tree, 0), <<>>, excl)
        extended_apis == [i \in 1..Len(flat.data) |->
                             Update(flat.data[i], block)]
    IN  IF flat.raised THEN flat
        ELSE [raised |-> FALSE,
              data |-> IF filter # <<>>
                       THEN GetFilteredApis(extended_apis, filter)
                       ELSE extended_apis]

-----------------------------------------------------------------------------
(* DocstrIntrospector and DocstrCollector *)

\* is_hidden_method with the presence of the key taken for its value
IsHiddenMethodByKey(object) == "hidden_method" \in DOMAIN object

\* is_hidden_method: parser.object.get('hidden_method', False)
IsHiddenMethod(object) ==
    IF "hidden_method" \in DOMAIN object THEN object.hidden_method ELSE FALSE

\* the mapping of a method's structured block; an absent block is empty
GetYamlParser(blocks, j) == blocks[j]

\* self.methods(): the handler's methods, here by their position
Methods(blocks) == [j \in 1..Len(blocks) |-> j]

\* one next() on the generator of DocstrIntrospector.__iter__: the loop runs
\* on from method number i to the next method it yields, or to its end
IterNext(blocks, i) ==
    LET names == Methods(blocks)
        visible == {j \in (i+1)..Len(names) :
                       ~IsHiddenMethod(GetYamlParser(blocks, names[j]))}
    IN  IF visible = {} THEN [stop |-> TRUE, at |-> Len(names), value |-> 0]
        ELSE [stop |-> FALSE, at |-> Min(visible),
              value |-> names[Min(visible)]]

\* _get_releated_classes_models_list without the recursive calls
RelatedClassesDirect(classes, c) ==
    IF c # 0 /\ classes[c].has_hook THEN classes[c].related ELSE <<>>

RECURSIVE RelatedClassesModelsList(_, _)
\* _get_releated_classes_models_list; class 0 is None
RelatedClassesModelsList(classes, c) ==
    IF c # 0 /\ classes[c].has_hook
    THEN LET related == classes[c].related
         IN  related
             \o Flat([i \in 1..Len(related) |->
                        IF classes[related[i]].has_hook
                        THEN RelatedClassesModelsList(classes, related[i])
                        ELSE <<>>])
    ELSE <<>>

\* DocstrIntrospector.get_models
IntrospectorGetModels(classes, handler) ==
    IF handler.has_get_model_class
    THEN <<handler.root>> \o RelatedClassesModelsList(classes, handler.root)
    ELSE <<>>

\* parser.load_obj_from_docstring(cls.__doc__): the document of class c
LoadObjFromDocstring(c) == c

RECURSIVE StoreModels(_, _, _)
\* the inner loop of DocstrCollector.get_models; None has no __name__
StoreModels(acc, classes, list) ==
    IF list = <<>> THEN [raised |-> FALSE, data |-> acc]
    ELSE IF Head(list) = 0 THEN [raised |-> TRUE, data |-> acc]
    ELSE StoreModels(
            Update(acc, [n \in {classes[Head(list)].name} |->
                            LoadObjFromDocstring(Head(list))]),
            classes, Tail(list))

RECURSIVE CollectorGetModels(_, _, _)
\* DocstrCollector.get_models over the handlers of the apis
CollectorGetModels(acc, classes, handlers) ==
    IF handlers = <<>> THEN [raised |-> FALSE, data |-> acc]
    ELSE LET one == StoreModels(acc, classes,
                                IntrospectorGetModels(classes, Head(handlers)))
         IN  IF one.raised THEN one
             ELSE CollectorGetModels(one.data, classes, Tail(handlers))

-----------------------------------------------------------------------------
(* Bounds *)

MaxLineLen == 5     \* tokens after the name of a generated parameter line
MaxPathLen == 2     \* tokens of a path after its leading '/'
MaxFields == 2      \* fields of a serializer
MaxDocLines == 2    \* lines of a method docstring
MaxNoteLen == 2     \* tokens of a line of narrative
MaxNodes == 3       \* nodes of a route tree
MaxApiNodes == 2    \* nodes of a route tree handed to get_apis
MaxModels == 3      \* model classes
MaxEndpoints == 2   \* apis handed to get_models
MaxMethods == 3     \* methods of a handler

-----------------------------------------------------------------------------
(* The states the parts left alone by a specification stay in *)

DocIdle ==
    /\ http_method = "GET"
    /\ path = <<"/">>
    /\ serializer = NoSerializer
    /\ method_doc = <<>>
    /\ class_doc = << <<>> >>
    /\ docstring_params = <<>>
    /\ path_params = <<>>
    /\ params = <<>>
    /\ notes = <<>>

RouteIdle ==
    /\ patterns = <<>>
    /\ exclude_namespaces = <<>>
    /\ yaml_block = <<>>
    /\ filter_path = <<>>
    /\ apis = <<>>

ModelIdle ==
    /\ model_classes = <<>>
    /\ endpoints = <<>>
    /\ models = <<>>

IterIdle ==
    /\ methods = <<>>
    /\ idx = 0
    /\ yielded = <<>>

-----------------------------------------------------------------------------
(* Specification of build_query_params_from_docstring on one line *)

LineAlphabet == {"a", WS, SEP, REQ, PFORM, PBODY, DTOPEN, "int", RB}
LineNames == {<<"foo">>, <<WS, "foo", WS>>}

InitDocstring ==
    /\ pc = "start"
    /\ raised = FALSE
    /\ RouteIdle
    /\ ModelIdle
    /\ IterIdle
    /\ \E name \in LineNames, rest \in SeqsUpTo(LineAlphabet, MaxLineLen) :
           method_doc = <<name \o rest>>
    /\ class_doc = << <<>> >>
    /\ http_method = "GET"
    /\ path = <<"/">>
    /\ serializer = NoSerializer
    /\ docstring_params = <<>>
    /\ path_params = <<>>
    /\ params = <<>>
    /\ notes = <<>>

CallBuildQueryParams ==
    /\ pc = "start"
    /\ docstring_params' = BuildQueryParamsFromDocstring(method_doc, class_doc)
    /\ pc' = "build_query_params_from_docstring"
    /\ UNCHANGED <<http_method, path, serializer, method_doc, class_doc,
                   path_params, params, notes>>
    /\ UNCHANGED <<raised, routeVars, modelVars, iterVars>>

NextDocstring == CallBuildQueryParams

SpecDocstring == InitDocstring /\ [][NextDocstring]_vars

-----------------------------------------------------------------------------
(* Specification of get_parameters *)

HttpMethods == {"GET", "POST", "DELETE"}
PathAlphabet == {"/", "x", "{id}"}
FieldNames == {"id", "q"}

Field(n, ro) ==
    [name |-> n, read_only |-> ro, type_label |-> "field",
     max_length |-> IF n = "q" THEN "10" ELSE "None", min_length |-> "None",
     help_text |-> <<"help">>, default |-> "None", required |-> "False"]

\* get_fields() is a mapping: no two fields share a name
Serializers ==
    {NoSerializer} \cup
    {[is_none |-> FALSE, name |-> "S", fields |-> fs] :
        fs \in {s \in SeqsUpTo({Field(n, ro) : n \in FieldNames, ro \in BOOLEAN},
                               MaxFields) :
                   \A i, j \in 1..Len(s) : i # j => s[i].name # s[j].name}}

DocLines ==
    {<<"text">>} \cup
    {<<n, SEP>> \o d : n \in FieldNames,
                       d \in {<<"d", WS, REQ>>, <<DTOPEN, "int", RB>>,
                              <<PFORM, "d">>}}

InitParameters ==
    /\ pc = "start"
    /\ raised = FALSE
    /\ RouteIdle
    /\ ModelIdle
    /\ IterIdle
    /\ http_method \in HttpMethods
    /\ \E rest \in SeqsUpTo(PathAlphabet, MaxPathLen) : path = <<"/">> \o rest
    /\ serializer \in Serializers
    /\ method_doc \in SeqsUpTo(DocLines, MaxDocLines)
    /\ class_doc = << <<>> >>
    /\ docstring_params = <<>>
    /\ path_params = <<>>
    /\ params = <<>>
    /\ notes = <<>>

CallGetParameters ==
    /\ pc = "start"
    /\ path_params' = BuildPathParameters(path)
    /\ docstring_params' = BuildQueryParamsFromDocstring(method_doc, class_doc)
    /\ params' = GetParameters(http_method, path, serializer, method_doc,
                               class_doc)
    /\ pc' = "get_parameters"
    /\ UNCHANGED <<http_method, path, serializer, method_doc, class_doc, notes>>
    /\ UNCHANGED <<raised, routeVars, modelVars, iterVars>>

NextParameters == CallGetParameters

SpecParameters == InitParameters /\ [][NextParameters]_vars

-----------------------------------------------------------------------------
(* Specification of get_notes *)

NoteAlphabet == {"a", SEP, DASHES}
NoteLines == SeqsUpTo(NoteAlphabet, MaxNoteLen)

InitNotes ==
    /\ pc = "start"
    /\ raised = FALSE
    /\ RouteIdle
    /\ ModelIdle
    /\ IterIdle
    /\ class_doc \in {<<l>> : l \in NoteLines}
    /\ method_doc \in SeqsUpTo(NoteLines, MaxDocLines)
    /\ http_method = "GET"
    /\ path = <<"/">>
    /\ serializer = NoSerializer
    /\ docstring_params = <<>>
    /\ path_params = <<>>
    /\ params = <<>>
    /\ notes = <<>>

CallGetNotes ==
    /\ pc = "start"
    /\ notes' = GetNotes(method_doc, class_doc)
    /\ pc' = "get_notes"
    /\ UNCHANGED <<http_method, path, serializer, method_doc, class_doc,
                   docstring_params, path_params, params>>
    /\ UNCHANGED <<raised, routeVars, modelVars, iterVars>>

NextNotes == CallGetNotes

SpecNotes == InitNotes /\ [][NextNotes]_vars

-----------------------------------------------------------------------------
(* Specifications of the URL parser *)

LeafCallbacks == {ViewCallback, ApiRootCallback, DocViewCallback,
                  FunctionCallback, InstanceCallback}
LeafRegexes == {<<"x">>, <<"(?P<id>)", ".(?P<format>)">>}
Leaves == {[regex |-> r, callback |-> c] : r \in LeafRegexes, c \in LeafCallbacks}
Namespaces == {"None", "admin", "api"}

Pattern(parent, regex, callback) ==
    [kind |-> "RegexURLPattern", parent |-> parent, regex |-> regex,
     namespace |-> "None", callback |-> callback]
Resolver(parent, namespace) ==
    [kind |-> "RegexURLResolver", parent |-> parent, regex |-> <<"v", "/">>,
     namespace |-> namespace, callback |-> FunctionCallback]

\* the nodes a tree of up to n nodes is made of
Nodes(n) ==
    {Pattern(q, l.regex, l.callback) : q \in 0..(n-1), l \in Leaves}
    \cup {Resolver(q, ns) : q \in 0..(n-1), ns \in Namespaces}

\* a route tree: a node's parent is 0 (the node is in the top-level list) or
\* a resolver before it; the children of a node are in the order of their
\* numbers
IsTree(t) ==
    \A i \in 1..Len(t) :
        /\ t[i].parent < i
        /\ t[i].parent # 0 => t[t[i].parent].kind = "RegexURLResolver"

ExcludeLists == {<<>>, <<"admin">>, <<"api">>, <<"admin", "api">>,
                 <<"api", "admin">>}

InitFlatten ==
    /\ pc = "start"
    /\ raised = FALSE
    /\ DocIdle
    /\ ModelIdle
    /\ IterIdle
    /\ \E n \in 0..MaxNodes : \E t \in [1..n -> Nodes(n)] :
           IsTree(t) /\ patterns = t
    /\ exclude_namespaces \in ExcludeLists
    /\ yaml_block = <<>>
    /\ filter_path = <<>>
    /\ apis = <<>>

CallFlattenPatternsTree ==
    /\ pc = "start"
    /\ LET r == FlattenPatternsTree(patterns, UrlPatterns(patterns, 0), <<>>,
                                    exclude_namespaces)
       IN  apis' = r.data /\ raised' = r.raised
    /\ pc' = "flatten_patterns_tree"
    /\ UNCHANGED <<patterns, exclude_namespaces, yaml_block, filter_path>>
    /\ UNCHANGED <<docVars, modelVars, iterVars>>

NextFlatten == CallFlattenPatternsTree

SpecFlatten == InitFlatten /\ [][NextFlatten]_vars

\* the values a structured block can give the keys it declares
BlockValues ==
    [api |-> <<"/", "v", "/">>, path |-> <<"/", "doc">>, pattern |-> 0,
     callback |-> "Documented"]
Blocks == {[k \in K |-> BlockValues[k]] : K \in SUBSET DOMAIN BlockValues}

InitGetApis ==
    /\ pc = "start"
    /\ raised = FALSE
    /\ DocIdle
    /\ ModelIdle
    /\ IterIdle
    /\ \E n \in 0..MaxApiNodes : \E t \in [1..n -> Nodes(n)] :
           IsTree(t) /\ patterns = t
    /\ exclude_namespaces \in ExcludeLists
    /\ yaml_block \in Blocks
    /\ filter_path \in {<<>>, <<"v">>}
    /\ apis = <<>>

CallGetApis ==
    /\ pc = "start"
    /\ LET r == GetApis(patterns, yaml_block, filter_path, exclude_namespaces)
       IN  apis' = r.data /\ raised' = r.raised
    /\ pc' = "get_apis"
    /\ UNCHANGED <<patterns, exclude_namespaces, yaml_block, filter_path>>
    /\ UNCHANGED <<docVars, modelVars, iterVars>>

NextGetApis == CallGetApis

SpecGetApis == InitGetApis /\ [][NextGetApis]_vars

-----------------------------------------------------------------------------
(* Specification of DocstrCollector.get_models *)

UniqueNames == <<"A", "B", "C", "D", "E", "F">>

RECURSIVE SortedSeq(_)
SortedSeq(S) == IF S = {} THEN <<>> ELSE <<Min(S)>> \o SortedSeq(S \ {Min(S)})

\* class c of n: its own name or one it shares; without the hook it names no
\* related classes, with it any of the classes after it (the graph is acyclic)
ClassChoices(c, n) ==
    {[name |-> nm, has_hook |-> FALSE, related |-> <<>>] :
        nm \in {UniqueNames[c], "Shared"}}
    \cup
    {[name |-> nm, has_hook |-> TRUE, related |-> SortedSeq(R)] :
        nm \in {UniqueNames[c], "Shared"}, R \in SUBSET ((c+1)..n)}

RECURSIVE ClassTables(_, _)
ClassTables(c, n) ==
    IF c > n THEN {<<>>}
    ELSE {<<x>> \o t : x \in ClassChoices(c, n), t \in ClassTables(c + 1, n)}

\* a handler without get_model_class, or with one returning None (0) or a
\* model class
Handlers(n) ==
    {[has_get_model_class |-> FALSE, root |-> 0]}
    \cup {[has_get_model_class |-> TRUE, root |-> r] : r \in 0..n}

InitModels ==
    /\ pc = "start"
    /\ raised = FALSE
    /\ DocIdle
    /\ RouteIdle
    /\ IterIdle
    /\ model_classes \in ClassTables(1, MaxModels)
    /\ endpoints \in SeqsUpTo(Handlers(MaxModels), MaxEndpoints)
    /\ models = <<>>

CallGetModels ==
    /\ pc = "start"
    /\ LET r == CollectorGetModels(<<>>, model_classes, endpoints)
       IN  /\ raised' = r.raised
           /\ models' = IF r.raised THEN <<>> ELSE r.data
    /\ pc' = "get_models"
    /\ UNCHANGED <<model_classes, endpoints>>
    /\ UNCHANGED <<docVars, routeVars, iterVars>>

NextModels == CallGetModels

SpecModels == InitModels /\ [][NextModels]_vars

-----------------------------------------------------------------------------
(* Specification of iterating a DocstrIntrospector *)

MethodBlocks ==
    {[k \in {} |-> TRUE],
     [hidden_method |-> TRUE],
     [hidden_method |-> FALSE],
     [summary |-> FALSE]}

InitIter ==
    /\ pc = "start"
    /\ raised = FALSE
    /\ DocIdle
    /\ RouteIdle
    /\ ModelIdle
    /\ methods \in SeqsUpTo(MethodBlocks, MaxMethods)
    /\ idx = 0
    /\ yielded = <<>>

\* one next() of the consumer
NextMethod ==
    /\ pc \in {"start", "iterating"}
    /\ LET r == IterNext(methods, idx)
       IN  /\ idx' = r.at
           /\ yielded' = IF r.stop THEN yielded ELSE Append(yielded, r.value)
           /\ pc' = IF r.stop THEN "exhausted" ELSE "iterating"
    /\ UNCHANGED <<methods, raised>>
    /\ UNCHANGED <<docVars, routeVars, modelVars>>

NextIter == NextMethod

SpecIter == InitIter /\ [][NextIter]_vars

-----------------------------------------------------------------------------
(* All operations together *)

Init ==
    \/ InitDocstring
    \/ InitParameters
    \/ InitNotes
    \/ InitFlatten
    \/ InitGetApis
    \/ InitModels
    \/ InitIter

Next ==
    \/ CallBuildQueryParams
    \/ CallGetParameters
    \/ CallGetNotes
    \/ CallFlattenPatternsTree
    \/ CallGetApis
    \/ CallGetModels
    \/ NextMethod

Spec == Init /\ [][Next]_vars

-----------------------------------------------------------------------------
(* Properties of get_parameters *)

Names(ps) == [i \in 1..Len(ps) |-> ps[i].name]

\* C1: the list get_parameters returns holds one parameter per name: no two
\* of its entries share a name.
C1_UniqueNames ==
    pc = "get_parameters" =>
        \A i, j \in 1..Len(params) : i # j => params[i].name # params[j].name

ParamKeys == {"name", "description", "paramType", "required", "dataType",
              "allowableValues", "defaultValue"}

\* both dicts lack the key, or both hold the same value under it
SameField(a, b, k) ==
    /\ (k \in DOMAIN a) <=> (k \in DOMAIN b)
    /\ k \in DOMAIN a => a[k] = b[k]

RemoveAt(s, i) == SubSeq(s, 1, i - 1) \o SubSeq(s, i + 1, Len(s))

\* the keys that docstring lines after line i set for the same name
SetLater(doc, i, name) ==
    UNION {DOMAIN LineParams(doc[j])[1] :
              j \in {j \in (i+1)..Len(doc) : /\ LineParams(doc[j]) # <<>>
                                             /\ LineParams(doc[j])[1].name = name}}

\* C2: a docstring line whose name is that of a parameter of steps 1-2 updates
\* that parameter in place.  Against the list obtained without the line: the
\* length and the order of the names are the same, every parameter of another
\* name is the same, no parameter differs in a field the line does not set
\* (a line always sets name and description, and the tags it carries), and
\* the parameter of that name holds the line's value in every field the line
\* sets and no later line of the same name sets again.
C2_UpdatedInPlace ==
    pc = "get_parameters" =>
        \A i \in 1..Len(method_doc) :
            LET cand == LineParams(method_doc[i])
                base == StructuredParams(http_method, path, serializer)
            IN  (cand # <<>> /\ cand[1].name \in Range(Names(base))) =>
                LET d == cand[1]
                    without == GetParameters(http_method, path, serializer,
                                             RemoveAt(method_doc, i), class_doc)
                IN  /\ Len(params) = Len(without)
                    /\ Names(params) = Names(without)
                    /\ \A j \in 1..Len(params) :
                           /\ params[j].name # d.name => params[j] = without[j]
                           /\ \A k \in ParamKeys \ DOMAIN d :
                                  SameField(params[j], without[j], k)
                    /\ \E j \in 1..Len(base) :
                           /\ params[j].name = d.name
                           /\ \A k \in DOMAIN d \ SetLater(method_doc, i, d.name) :
                                  k \in DOMAIN params[j] /\ params[j][k] = d[k]

\* C2's case: a form parameter built from a serializer field holds the
\* dataType of a docstring tag next to the allowableValues of the field
C2_FormParamUpdated ==
    /\ pc = "get_parameters"
    /\ \E j \in 1..Len(params) :
           /\ params[j].paramType = "form"
           /\ params[j].dataType = <<"int">>
           /\ params[j].name = <<"q">>
           /\ params[j].allowableValues # <<>>
           /\ Len(params) = Len(StructuredParams(http_method, path, serializer))

Captures(p) == SelectSeq(p, LAMBDA t : t \in CaptureTokens)

\* C7: build_path_parameters returns one required string path parameter per
\* capture token of the path, in the order of the path, and the merged list
\* starts with the parameters of those names.
C7_OnePathParameterPerToken ==
    pc = "get_parameters" =>
        /\ Len(path_params) = Len(Captures(path))
        /\ \A i \in 1..Len(path_params) :
               path_params[i] = [name |-> <<CaptureName(Captures(path)[i])>>,
                                 dataType |-> <<"string">>,
                                 paramType |-> "path",
                                 required |-> "True"]
        /\ Len(params) >= Len(path_params)
        /\ \A i \in 1..Len(path_params) : params[i].name = path_params[i].name

-----------------------------------------------------------------------------
(* Properties of the URL parser *)

RECURSIVE Ancestors(_, _)
\* the resolvers a node lies beneath
Ancestors(tree, id) ==
    IF tree[id].parent = 0 THEN {}
    ELSE {tree[id].parent} \cup Ancestors(tree, tree[id].parent)

BeneathExcluded(tree, id, excl) ==
    \E a \in Ancestors(tree, id) : tree[a].namespace \in Range(excl)

RECURSIVE PrefixOf(_, _)
\* the pattern fragments of the resolvers above a node, outermost first
PrefixOf(tree, id) ==
    IF tree[id].parent = 0 THEN <<>>
    ELSE PrefixOf(tree, tree[id].parent) \o tree[tree[id].parent].regex

\* the per-leaf rules: the callback wraps an API view that is neither the
\* documentation's own view nor the router's root view, and the path has no
\* format suffix
LeafPasses(tree, id) ==
    /\ tree[id].kind = "RegexURLPattern"
    /\ tree[id].callback.wrap = "cls"
    /\ tree[id].callback.is_api_view
    /\ ~tree[id].callback.is_doc_view
    /\ tree[id].callback.module # "rest_framework.routers"
    /\ ".(?P<format>)" \notin Range(PrefixOf(tree, id) \o tree[id].regex)

C9_EndpointUnchanged ==
    (pc = "get_apis" /\ ~raised) =>
        LET flat == FlattenPatternsTree(patterns, UrlPatterns(patterns, 0),
                                        <<>>, exclude_namespaces).data
        IN  \A i \in 1..Len(apis) :
                \E j \in 1..Len(flat) :
                    /\ apis[i].path = flat[j].path
                    /\ apis[i].pattern = flat[j].pattern
                    /\ apis[i].callback = flat[j].callback

-----------------------------------------------------------------------------
(* Properties of the collector *)

RECURSIVE ReachableFrom(_, _)
\* the classes reachable from the classes S along the related-models hook
ReachableFrom(classes, S) ==
    LET next == S \cup UNION {Range(classes[c].related) : c \in S}
    IN  IF next = S THEN S ELSE ReachableFrom(classes, next)

\* the root models the handlers declare
Roots(handlers) ==
    {handlers[i].root : i \in {i \in 1..Len(handlers) :
                                  handlers[i].has_get_model_class}}

\* C4: the keys of the mapping get_models returns are the names of the
\* classes reachable from the root models the handlers declare, the roots
\* included.
C4_ReachableModelNames ==
    (pc = "get_models" /\ ~raised) =>
        DOMAIN models =
            {model_classes[c].name :
                c \in ReachableFrom(model_classes, Roots(endpoints))}

\* C4's case: one handler with root A, A names B and C, B names C: C is
\* reached by two routes, and the three names are the keys
C4_SharedModelReached ==
    /\ pc = "get_models"
    /\ ~raised
    /\ Len(endpoints) = 1
    /\ endpoints[1].root = 1
    /\ model_classes[1].related = <<2, 3>>
    /\ model_classes[2].related = <<3>>
    /\ DOMAIN models = {"A", "B", "C"}

\* the handler has no root model: get_model_class is absent, or returns None
NoRootModel(handler) == ~handler.has_get_model_class \/ handler.root = 0

\* the root models of the handlers that have one
DeclaredRoots(handlers) ==
    {handlers[i].root : i \in {i \in 1..Len(handlers) :
                                  ~NoRootModel(handlers[i])}}

\* C11: when some endpoint's handler has no root model (get_model_class
\* absent, or returning none), get_models raises no error and its mapping
\* holds exactly the entries of the other endpoints: the names of the classes
\* reachable from their root models.
C11_NoRootModelContributesNothing ==
    (/\ pc = "get_models"
     /\ \E i \in 1..Len(endpoints) : NoRootModel(endpoints[i]))
    => /\ ~raised
       /\ DOMAIN models =
              {model_classes[c].name :
                  c \in ReachableFrom(model_classes, DeclaredRoots(endpoints))}

\* the methods up to number n whose block does not set hidden_method to true
Visible(blocks, n) ==
    SelectSeq([j \in 1..n |-> j],
              LAMBDA j : ~("hidden_method" \in DOMAIN blocks[j]
                           /\ blocks[j].hidden_method = TRUE))

\* C8: the iteration yields, in the order of the methods, exactly the methods
\* gone through so far whose block does not set hidden_method to true, and it
\* ends only when it has gone through all of them.
C8_HiddenMethodsSkipped ==
    /\ yielded = Visible(methods, idx)
    /\ pc = "exhausted" => idx = Len(methods)
    /\ pc = "iterating" => yielded # <<>> /\ yielded[Len(yielded)] = idx

\* C8's case: of a hidden method, one with hidden_method false and one with
\* no block, the last two were yielded
C8_HiddenSkippedOthersYielded ==
    /\ pc = "exhausted"
    /\ Len(methods) = 3
    /\ methods[1] = [hidden_method |-> TRUE]
    /\ methods[2] = [hidden_method |-> FALSE]
    /\ DOMAIN methods[3] = {}
    /\ yielded = <<2, 3>>

-----------------------------------------------------------------------------
(* Properties of build_query_params_from_docstring *)

Count(s, t) == Cardinality({i \in 1..Len(s) : s[i] = t})

\* a description that carries each tag at most once, at most one of the two
\* paramType tags, and the dataType tag whole: '[dataType=', a value, ']'
TaggedDescription(desc) ==
    /\ Count(desc, REQ) <= 1
    /\ Count(desc, PFORM) + Count(desc, PBODY) <= 1
    /\ Count(desc, DTOPEN) <= 1
    /\ \A i \in 1..Len(desc) :
           desc[i] = DTOPEN =>
               i + 2 <= Len(desc) /\ desc[i+1] = "int" /\ desc[i+2] = RB

\* the positions of the description's tags
TagPositions(desc) ==
    {i \in 1..Len(desc) : desc[i] \in {REQ, PFORM, PBODY, DTOPEN}}
    \cup {i \in 2..Len(desc) : desc[i-1] = DTOPEN}
    \cup {i \in 3..Len(desc) : desc[i-2] = DTOPEN}

WithoutTags(desc) ==
    LET keep == {i \in 1..Len(desc) : i \notin TagPositions(desc)}
    IN  SelectSeq([i \in 1..Len(desc) |-> IF i \in keep THEN desc[i] ELSE ""],
                  LAMBDA t : t # "")

\* the record the tags of a line stand for, whatever their order
TaggedParam(name, desc) ==
    Update(Update(Update(
        [name |-> Strip(name), description |-> Strip(WithoutTags(desc))],
        IF REQ \in Range(desc) THEN [required |-> "True"] ELSE <<>>),
        IF PFORM \in Range(desc) THEN [paramType |-> "form"]
        ELSE IF PBODY \in Range(desc) THEN [paramType |-> "body"] ELSE <<>>),
        IF DTOPEN \in Range(desc) THEN [dataType |-> <<"int">>] ELSE <<>>)

\* C6: a line 'name -- description' whose description carries any of the
\* tags, in any order and next to any other text, yields the record of its
\* tags: required iff [required], paramType as tagged, dataType exactly the
\* tag's value, description the rest of the text, trimmed.
C6_TagsParsed ==
    pc = "build_query_params_from_docstring" =>
        LET parts == SplitOn(method_doc[1], SEP)
        IN  (Len(parts) = 2 /\ TaggedDescription(parts[2])) =>
                docstring_params = <<TaggedParam(parts[1], parts[2])>>

\* C10: a line with at least one ' -- ' yields exactly one candidate, named
\* by the trimmed text before the first ' -- '; a line with none yields none.
C10_SplitOnFirstSeparator ==
    pc = "build_query_params_from_docstring" =>
        LET line == method_doc[1]
            hits == {i \in 1..Len(line) : line[i] = SEP}
        IN  IF hits = {} THEN docstring_params = <<>>
            ELSE /\ Len(docstring_params) = 1
                 /\ docstring_params[1].name
                        = Strip(SubSeq(line, 1, Min(hits) - 1))

-----------------------------------------------------------------------------
(* Properties of get_notes *)

\* C5: the notes are the lines of the class description followed by the
\* method docstring that precede the first line containing ' -- ', all of
\* them and nothing else.
C5_NotesCutAtFirstParamLine ==
    pc = "get_notes" =>
        LET lines == TrimDocstring(NotesSource(method_doc, class_doc))
            hits == {i \in 1..Len(lines) : SEP \in Range(lines[i])}
        IN  notes = JoinLines(IF hits = {} THEN lines
                              ELSE SubSeq(lines, 1, Min(hits) - 1))

====
